---------------------------- MODULE Spec2Model ----------------------------
(* GameStateManager and BetInfo of game_state_manager.py as a state machine. *)
(* One action per public method; the dicts are functions on their key sets,  *)
(* the player dict is iterated in insertion order, which is id order.        *)
EXTENDS Integers, Sequences, FiniteSets, TLC

\* ------------------------------------------------------------------ bounds
\* Capacities run from MinPlayers (the documented minimum) to MaxPlayers, in
\* the betting specification to MaxBettors; the ante is 1, in the betting
\* specification 1 to MaxAnte; no ledger entry is driven beyond MaxBet, and
\* raises run from 0 to MaxBet; join is called at most MaxFullJoins times more
\* often than the capacity.
MinPlayers == 2
MaxPlayers == 3
MaxBettors == 2
MaxAnte == 1
MaxBet == 2
MaxFullJoins == 1
\* At most MaxDealt cards are dealt from one deck.
MaxDealt == 5
\* rank_high is given at most MaxCand candidates.
MaxCand == 3
\* Showdowns among active players run at tables of at most MaxShown seats.
MaxShown == 2

VARIABLES num_players, ante_amt, players, next_id, turn_id, folded_ids,
          left_ids, final_hands, player_bets, last, joinLog, leaveCalled,
          deck, card_val, hand_keys

\* deck is the number of cards left in the Deck; hand_keys is the insertion
\* order of the final_hands dict.
session == <<num_players, ante_amt, players, next_id, turn_id, folded_ids,
             left_ids, final_hands, player_bets, deck, card_val, hand_keys>>
vars == <<session, last, joinLog, leaveCalled>>

\* Outcome codes of a call (the exception raised, or none).
OK == "ok"
GameFullError == "GameFullError"
KeyError == "KeyError"

\* The set of keys of a dict in iteration order; ids are inserted in
\* increasing order, so insertion order is id order.
RECURSIVE KeysInOrder(_)
KeysInOrder(S) ==
    IF S = {} THEN <<>>
    ELSE LET m == CHOOSE x \in S : \A y \in S : x <= y
         IN <<m>> \o KeysInOrder(S \ {m})

\* ------------------------------------------------------------------ cards
\* The cards module: a Card is <<value, suit>> with value 2..14 (11 = J,
\* 12 = Q, 13 = K, 14 = A) and one of 4 suits; Hand.hand is a list of Cards.
NUM_CARDS_IN_HAND == 5
MAX_DISCARD == 3
DECK_SIZE == 52
MinRank == 2
MaxRank == 14
NumSuits == 4

Card(value, suit) == <<value, suit>>
Value(card) == card[1]
Suit(card) == card[2]

\* cards.Deck(): a full deck.
NewDeck(old) == DECK_SIZE

\* Hand.add_card: add by value, at the end.
AddCard(hand, card) == Append(hand, card)

\* Hand.remove_card: remove by value (the first card equal to it).
RECURSIVE RemoveCard(_, _)
RemoveCard(hand, card) ==
    IF hand = <<>> THEN <<>>
    ELSE IF Head(hand) = card THEN Tail(hand)
    ELSE <<Head(hand)>> \o RemoveCard(Tail(hand), card)

\* list.sort(reverse=True) on Cards, which compare by rank: a stable
\* insertion of each card behind the cards of rank not lower than its own.
RECURSIVE InsertDesc(_, _)
InsertDesc(sorted, card) ==
    IF sorted = <<>> THEN <<card>>
    ELSE IF Value(Head(sorted)) >= Value(card)
         THEN <<Head(sorted)>> \o InsertDesc(Tail(sorted), card)
         ELSE <<card>> \o sorted

RECURSIVE SortDesc(_)
SortDesc(card_list) ==
    IF card_list = <<>> THEN <<>>
    ELSE InsertDesc(SortDesc(SubSeq(card_list, 1, Len(card_list) - 1)),
                    card_list[Len(card_list)])

\* Hands the callers store.
RoyalFlush ==
    <<Card(10, 1), Card(11, 1), Card(12, 1), Card(13, 1), Card(14, 1)>>
PairOfKings ==
    <<Card(13, 2), Card(13, 3), Card(2, 1), Card(3, 3), Card(4, 2)>>
QuadThreesAce ==
    <<Card(3, 1), Card(3, 2), Card(3, 3), Card(3, 4), Card(14, 2)>>
QuadKingsTwo ==
    <<Card(13, 1), Card(13, 2), Card(13, 3), Card(13, 4), Card(2, 3)>>
AceHigh ==
    <<Card(14, 3), Card(9, 1), Card(7, 2), Card(5, 3), Card(3, 4)>>
AceHighToo ==
    <<Card(6, 1), Card(14, 4), Card(8, 2), Card(4, 3), Card(2, 4)>>
KingHigh ==
    <<Card(13, 4), Card(9, 2), Card(7, 1), Card(5, 4), Card(3, 1)>>

\* Every hand of five cards up to the order of the cards and the names of the
\* suits: the ranks in ascending order, at most four of them equal; equal
\* ranks in different suits; all five of one suit, or one card of another
\* suit in the first, the middle or the last place.
RankLists ==
    {r \in [1 .. NUM_CARDS_IN_HAND -> MinRank .. MaxRank] :
        /\ \A i \in 1 .. NUM_CARDS_IN_HAND - 1 : r[i] <= r[i + 1]
        /\ r[1] # r[NUM_CARDS_IN_HAND]}

Distinct(r) == \A i \in 1 .. NUM_CARDS_IN_HAND - 1 : r[i] < r[i + 1]

SuitLists(r) ==
    IF Distinct(r)
    THEN {<<1, 1, 1, 1, 1>>, <<2, 1, 1, 1, 1>>, <<1, 1, 2, 1, 1>>,
          <<1, 1, 1, 1, 2>>}
    ELSE {<<1, 2, 3, 4, 1>>}

ScoreHands ==
    UNION {{[i \in 1 .. NUM_CARDS_IN_HAND |-> Card(r[i], u[i])] :
               u \in SuitLists(r)} : r \in RankLists}

RoundHands == {RoyalFlush, PairOfKings}

\* Cards drawn after a discard.
DrawCards == {Card(13, 4), Card(9, 4)}

ShowHands == {RoyalFlush, PairOfKings, QuadThreesAce, QuadKingsTwo, AceHigh,
              AceHighToo, KingHigh}

\* Sizes asked of get_cards: below, inside and above the range.
DealSizes == {-1, 0, 1, NUM_CARDS_IN_HAND, NUM_CARDS_IN_HAND + 1}

\* del on the insertion order of a dict.
RemoveKey(keys, p) == SelectSeq(keys, LAMBDA k : k # p)

\* ------------------------------------------------------------------ BetInfo
\* BetInfo.add_bet
add_bet(d, p, amt) ==
    IF p \notin DOMAIN d
    THEN [q \in DOMAIN d \cup {p} |-> IF q = p THEN amt ELSE d[q]]
    ELSE [d EXCEPT ![p] = d[p] + amt]

\* BetInfo.get_max_bet()[0]: the running maximum starts at 0.
RECURSIVE MaxFrom(_, _, _)
MaxFrom(d, keys, m) ==
    IF keys = <<>> THEN m
    ELSE MaxFrom(d, Tail(keys), IF d[Head(keys)] > m THEN d[Head(keys)] ELSE m)

get_max_bet(d) == MaxFrom(d, KeysInOrder(DOMAIN d), 0)

\* BetInfo.get_max_bet()[1]: the ids whose bet equals the maximum.
get_max_ids(d) == {p \in DOMAIN d : d[p] = get_max_bet(d)}

\* BetInfo.get_player_bet
get_player_bet(d, p) == IF p \notin DOMAIN d THEN 0 ELSE d[p]

\* BetInfo.get_pool_amt
RECURSIVE TotalFrom(_, _, _)
TotalFrom(d, keys, total) ==
    IF keys = <<>> THEN total
    ELSE TotalFrom(d, Tail(keys), total + d[Head(keys)])

get_pool_amt(d) == TotalFrom(d, KeysInOrder(DOMAIN d), 0)

\* Variant: the entries survive the reset.
bets_reset_kept(d) == d

\* BetInfo.reset
bets_reset(d) == <<>>

\* GameStateManager.bet_info: (pool_amt, max_bet, current_bet)
bet_info(d, p) == <<get_pool_amt(d), get_max_bet(d), get_player_bet(d, p)>>

\* ------------------------------------------------------------------ helpers
\* Variant: the roster size decides, so that a place freed by leave is refilled.
JoinRefusedByRoster(nid, cap, roster) == Cardinality(roster) >= cap

\* join's capacity test (line 77).
JoinRefused(nid, cap, roster) == nid > cap

\* Variant: the counter is not advanced.
JoinNextIdKept(nid) == nid

\* The counter join leaves behind (line 83).
JoinNextId(nid) == nid + 1

\* Variant: the whole maximum is taken as the call amount.
CallAmtWhole(max_bet, curr_bet) == max_bet

\* The call amount of bet_raise and bet_call (lines 212, 227).
CallAmt(max_bet, curr_bet) == max_bet - curr_bet

\* Variant: only the raise is added, without the call amount.
RaiseTotalNoCall(call_amt, amt) == amt

\* The amount bet_raise adds to the ledger (line 213).
RaiseTotal(call_amt, amt) == call_amt + amt

\* increment_turn's early return (lines 167-172).
TurnFrozen(cap, folded, left) ==
    cap - (Cardinality(folded) + Cardinality(left)) < 2

\* Variant: the next id modulo the capacity, folded or departed or not.
NextTurnNoSkip(turn, cap, folded, left) == (turn + 1) % cap

\* increment_turn's search (lines 178-180).
RECURSIVE SkipOut(_, _, _, _)
SkipOut(turn, cap, folded, left) ==
    IF (turn \in folded) \/ (turn \in left)
    THEN SkipOut((turn + 1) % cap, cap, folded, left)
    ELSE turn

NextTurn(turn, cap, folded, left) == SkipOut((turn + 1) % cap, cap, folded, left)

\* remove_hand: deletes the player's hand when any hand is stored; the del
\* raises KeyError when hands are stored but not this player's.
RemoveHandRaises(hands, p) == DOMAIN hands # {} /\ p \notin DOMAIN hands

\* Variant: the hand stays stored.
remove_hand_kept(hands, p) == hands

remove_hand(hands, p) ==
    IF DOMAIN hands # {} /\ p \in DOMAIN hands
    THEN [q \in DOMAIN hands \ {p} |-> hands[q]]
    ELSE hands

\* Variant: reset empties the departed set like the folded set.
ResetLeftCleared(left) == {}

\* reset leaves left_ids alone (lines 570-573 assign deck, final_hands, bets,
\* folded_ids only).
ResetLeft(left) == left

\* is_betting_over: the count the two tests use (lines 263-268).
BettingCount(roster, folded) == Cardinality(roster) - Cardinality(folded)

\* is_betting_over: the comparison loop (lines 271-279).
RECURSIVE BetScan(_, _, _, _)
BetScan(keys, folded, d, cur) ==
    IF keys = <<>> THEN <<TRUE, FALSE>>
    ELSE IF Head(keys) \in folded THEN BetScan(Tail(keys), folded, d, cur)
    ELSE IF cur = -1
         THEN BetScan(Tail(keys), folded, d, get_player_bet(d, Head(keys)))
    ELSE IF cur # get_player_bet(d, Head(keys)) THEN <<FALSE, FALSE>>
    ELSE BetScan(Tail(keys), folded, d, cur)

\* is_betting_over: [err, val]
is_betting_over_result(roster, folded, d) ==
    IF BettingCount(roster, folded) < 1
    THEN [err |-> GameFullError, val |-> <<>>]
    ELSE IF BettingCount(roster, folded) = 1
    THEN [err |-> OK, val |-> <<TRUE, TRUE>>]
    ELSE [err |-> OK, val |-> BetScan(KeysInOrder(roster), folded, d, -1)]

\* ------------------------------------------------------------------ hands
ValueError == "ValueError"

\* get_counts: 15 buckets, indexed by card value.
RECURSIVE CountFrom(_, _, _)
CountFrom(hand, i, counts) ==
    IF i > NUM_CARDS_IN_HAND THEN counts
    ELSE CountFrom(hand, i + 1,
                   [counts EXCEPT ![Value(hand[i])] = counts[Value(hand[i])] + 1])

get_counts(hand) == CountFrom(hand, 1, [r \in 0 .. MaxRank |-> 0])

\* is_flush: every card has the suit of the first.
is_flush(hand) ==
    \A i \in 2 .. NUM_CARDS_IN_HAND : Suit(hand[i]) = Suit(hand[1])

\* Variant: the ace also counts as the card below the two.
is_straight_wheel(counts) ==
    \E lo \in 1 .. 10 :
        \A r \in lo .. lo + 4 : counts[IF r = 1 THEN 14 ELSE r] = 1

\* is_straight: the inner loop over j, from bucket i.
RECURSIVE StraightRun(_, _, _)
StraightRun(counts, i, j) ==
    IF j > i + NUM_CARDS_IN_HAND - 1 THEN FALSE
    ELSE IF j > MaxRank \/ counts[j] = 0 THEN FALSE
    ELSE IF j = i + NUM_CARDS_IN_HAND - 1 THEN TRUE
    ELSE StraightRun(counts, i, j + 1)

\* is_straight: the outer loop over the buckets.
RECURSIVE StraightFrom(_, _)
StraightFrom(counts, i) ==
    IF i > MaxRank THEN FALSE
    ELSE IF counts[i] = 0 THEN StraightFrom(counts, i + 1)
    ELSE IF counts[i] > 2 THEN FALSE
    ELSE IF StraightRun(counts, i, i + 1) THEN TRUE
    ELSE StraightFrom(counts, i + 1)

is_straight(counts) == StraightFrom(counts, 0)

is_straight_flush(hand, counts) == is_flush(hand) /\ is_straight(counts)

is_royal_flush(hand, counts) ==
    /\ is_flush(hand)
    /\ counts[14] = 1 /\ counts[13] = 1 /\ counts[12] = 1
    /\ counts[11] = 1 /\ counts[10] = 1

has_four_of_kind(counts) == \E r \in DOMAIN counts : counts[r] = 4

has_three_of_kind(counts) == \E r \in DOMAIN counts : counts[r] = 3

\* The counter x of has_two_pairs and has_one_pair.
RECURSIVE PairsFrom(_, _, _)
PairsFrom(counts, i, x) ==
    IF i > MaxRank THEN x
    ELSE PairsFrom(counts, i + 1,
                   IF counts[i] = 2 THEN x + 1
                   ELSE IF counts[i] > 2 THEN x + (counts[i] \div 2)
                   ELSE x)

has_two_pairs(counts) == PairsFrom(counts, 0, 0) = 2

has_one_pair(counts) == PairsFrom(counts, 0, 0) = 1

is_full_house(counts) ==
    /\ Cardinality({r \in DOMAIN counts : counts[r] = 2}) = 1
    /\ Cardinality({r \in DOMAIN counts : counts[r] = 3}) = 1

\* score_player
score_player(hand, counts) ==
    IF is_royal_flush(hand, counts) THEN 0
    ELSE IF is_straight_flush(hand, counts) THEN 1
    ELSE IF has_four_of_kind(counts) THEN 2
    ELSE IF is_full_house(counts) THEN 3
    ELSE IF is_flush(hand) THEN 4
    ELSE IF is_straight(counts) THEN 5
    ELSE IF has_three_of_kind(counts) THEN 6
    ELSE IF has_two_pairs(counts) THEN 7
    ELSE IF has_one_pair(counts) THEN 8
    ELSE 9

\* rank_high: the highest occupied bucket of a candidate, -1 when it has none.
RECURSIVE TopFrom(_, _)
TopFrom(counts, j) ==
    IF j < 0 THEN -1
    ELSE IF counts[j] # 0 THEN j
    ELSE TopFrom(counts, j - 1)

TopRank(counts) == TopFrom(counts, MaxRank)

\* rank_high: the loop over the candidates.
RECURSIVE RankScan(_, _, _, _)
RankScan(cv, cands, cur_rank, winner) ==
    IF cands = <<>> THEN winner
    ELSE LET i == Head(cands)
             top == TopRank(cv[i])
         IN IF top = -1 THEN RankScan(cv, Tail(cands), cur_rank, winner)
            ELSE IF top > cur_rank THEN RankScan(cv, Tail(cands), top, <<i>>)
            ELSE IF top = cur_rank
                 THEN RankScan(cv, Tail(cands), cur_rank, Append(winner, i))
            ELSE RankScan(cv, Tail(cands), cur_rank, winner)

\* Variant: the first candidate wins.
rank_high_first(cv, candidates) ==
    IF Len(candidates) < 1 THEN [err |-> ValueError, val |-> <<>>]
    ELSE [err |-> OK, val |-> <<Head(candidates)>>]

\* rank_high: [err, val]
rank_high(cv, candidates) ==
    IF Len(candidates) < 1 THEN [err |-> ValueError, val |-> <<>>]
    ELSE IF Len(candidates) = 1 THEN [err |-> OK, val |-> candidates]
    ELSE [err |-> OK, val |-> RankScan(cv, candidates, -1, <<>>)]

\* Variant: card_val is rebuilt from the stored hands alone.
CountsFresh(cv, hands) == [p \in DOMAIN hands |-> get_counts(hands[p])]

\* evaluate_hands: the histograms it stores in card_val.
CountsAfter(cv, hands) ==
    [p \in DOMAIN cv \cup DOMAIN hands |->
        IF p \in DOMAIN hands THEN get_counts(hands[p]) ELSE cv[p]]

\* Variant: every stored hand is filed under every category.
win_score_all(hands, keys, cv, k) == keys

\* evaluate_hands: win_score[k], the ids of category k in dict order.
win_score(hands, keys, cv, k) ==
    SelectSeq(keys, LAMBDA p : score_player(hands[p], cv[p]) = k)

\* evaluate_hands: the first non-empty category decides, high_card otherwise.
RECURSIVE EvalFrom(_, _, _, _)
EvalFrom(hands, keys, cv, k) ==
    IF k > 8 THEN rank_high(cv, keys)
    ELSE LET ids == win_score(hands, keys, cv, k)
         IN IF ids # <<>>
            THEN IF k = 0 \/ Len(ids) < 2
                 THEN [err |-> OK, val |-> ids]
                 ELSE rank_high(cv, ids)
            ELSE EvalFrom(hands, keys, cv, k + 1)

\* evaluate_hands: [err, val], on the histograms just stored.
evaluate_hands_result(hands, keys, cv) == EvalFrom(hands, keys, cv, 0)

\* Variant: only the upper length test.
DeleteRefusedLong(l) == l > MAX_DISCARD

\* delete_cards: the two length tests.
DeleteRefused(l) == l < 1 \/ l > MAX_DISCARD

\* delete_cards: the removal loop.
RECURSIVE RemoveAll(_, _)
RemoveAll(hand, card_list) ==
    IF card_list = <<>> THEN hand
    ELSE RemoveAll(RemoveCard(hand, Head(card_list)), Tail(card_list))

\* add_cards: the loop.
RECURSIVE AddAll(_, _)
AddAll(hand, card_list) ==
    IF card_list = <<>> THEN hand
    ELSE AddAll(AddCard(hand, Head(card_list)), Tail(card_list))

\* get_cards: the range test.
GetCardsRefused(num_cards) == num_cards < 0 \/ num_cards > NUM_CARDS_IN_HAND

\* ------------------------------------------------------------------ state
Call(op, id, amt, err, val) ==
    [op |-> op, id |-> id, amt |-> amt, err |-> err, val |-> val]

CallCards(op, id, cards, err, val) ==
    [op |-> op, id |-> id, amt |-> 0, err |-> err, val |-> val,
     cards |-> cards]

\* __init__ / start, for a capacity of at most cap and an ante of at most ante
start(cap, ante) ==
    /\ num_players \in MinPlayers .. cap
    /\ ante_amt \in 1 .. ante
    /\ players = {}
    /\ final_hands = <<>>
    /\ next_id = 1
    /\ player_bets = <<>>
    /\ turn_id = 1
    /\ folded_ids = {}
    /\ left_ids = {}
    /\ last = Call("start", 0, 0, OK, <<>>)
    /\ joinLog = <<>>
    /\ leaveCalled = {}
    /\ deck = DECK_SIZE
    /\ card_val = <<>>
    /\ hand_keys = <<>>

Init == start(MaxPlayers, 1)

InitBet == start(MaxBettors, MaxAnte)

\* A table of the smallest capacity.
InitTwo == start(MinPlayers, 1)

\* join: joinLog records the outcome of every join call, 0 for GameFullError.
join ==
    /\ Len(joinLog) < num_players + MaxFullJoins
    /\ IF JoinRefused(next_id, num_players, players)
       THEN /\ last' = Call("join", 0, 0, GameFullError, <<>>)
            /\ joinLog' = Append(joinLog, 0)
            /\ UNCHANGED <<session, leaveCalled>>
       ELSE /\ next_id' = JoinNextId(next_id)
            /\ players' = players \cup {next_id}
            /\ last' = Call("join", 0, 0, OK, <<next_id>>)
            /\ joinLog' = Append(joinLog, next_id)
            /\ UNCHANGED <<num_players, ante_amt, turn_id, folded_ids,
                           left_ids, final_hands, player_bets, leaveCalled,
                           deck, card_val, hand_keys>>

\* increment_turn
increment_turn ==
    /\ turn_id' = IF TurnFrozen(num_players, folded_ids, left_ids)
                  THEN turn_id
                  ELSE NextTurn(turn_id, num_players, folded_ids, left_ids)
    /\ last' = Call("increment_turn", 0, 0, OK, <<>>)
    /\ UNCHANGED <<num_players, ante_amt, players, next_id, folded_ids,
                   left_ids, final_hands, player_bets, joinLog, leaveCalled,
                   deck, card_val, hand_keys>>

\* leave: left_ids.add comes first, then the roster lookup that raises
\* KeyError for an id not in the roster, then del and remove_hand.
leave(p) ==
    /\ left_ids' = left_ids \cup {p}
    /\ leaveCalled' = leaveCalled \cup {p}
    /\ IF p \notin players
       THEN /\ last' = Call("leave", p, 0, KeyError, <<>>)
            /\ UNCHANGED <<players, final_hands, hand_keys>>
       ELSE /\ players' = players \ {p}
            /\ final_hands' = remove_hand(final_hands, p)
            /\ hand_keys' = RemoveKey(hand_keys, p)
            /\ last' = Call("leave", p, 0,
                            IF RemoveHandRaises(final_hands, p)
                            THEN KeyError ELSE OK, <<>>)
    /\ UNCHANGED <<num_players, ante_amt, next_id, turn_id, folded_ids,
                   player_bets, joinLog, deck, card_val>>

\* ack_ante
ack_ante(p) ==
    /\ get_player_bet(player_bets, p) + ante_amt <= MaxBet
    /\ player_bets' = add_bet(player_bets, p, ante_amt)
    /\ last' = Call("ack_ante", p, ante_amt, OK, <<>>)
    /\ UNCHANGED <<num_players, ante_amt, players, next_id, turn_id,
                   folded_ids, left_ids, final_hands, joinLog, leaveCalled,
                   deck, card_val, hand_keys>>

\* bet_raise
bet_raise(p, amt) ==
    LET max_bet == get_max_bet(player_bets)          \* bet_info(p)[2]
        curr_bet == get_player_bet(player_bets, p)   \* bet_info(p)[3]
        call_amt == CallAmt(max_bet, curr_bet)
        total_bet == RaiseTotal(call_amt, amt)
    IN /\ curr_bet + total_bet <= MaxBet
       /\ player_bets' = add_bet(player_bets, p, total_bet)
       /\ last' = Call("bet_raise", p, amt, OK, <<>>)
       /\ UNCHANGED <<num_players, ante_amt, players, next_id, turn_id,
                      folded_ids, left_ids, final_hands, joinLog, leaveCalled,
                   deck, card_val, hand_keys>>

\* bet_call
bet_call(p) ==
    LET max_bet == get_max_bet(player_bets)          \* bet_info(p)[2]
        curr_bet == get_player_bet(player_bets, p)   \* bet_info(p)[3]
        call_amt == CallAmt(max_bet, curr_bet)
    IN /\ curr_bet + call_amt <= MaxBet
       /\ player_bets' = add_bet(player_bets, p, call_amt)
       /\ last' = Call("bet_call", p, call_amt, OK, <<>>)
       /\ UNCHANGED <<num_players, ante_amt, players, next_id, turn_id,
                      folded_ids, left_ids, final_hands, joinLog, leaveCalled,
                   deck, card_val, hand_keys>>

\* bet_check
bet_check(p) ==
    LET cur_bet == get_player_bet(player_bets, p)
    IN /\ cur_bet + cur_bet <= MaxBet
       /\ player_bets' = add_bet(player_bets, p, cur_bet)
       /\ last' = Call("bet_check", p, 0, OK, <<>>)
       /\ UNCHANGED <<num_players, ante_amt, players, next_id, turn_id,
                      folded_ids, left_ids, final_hands, joinLog, leaveCalled,
                   deck, card_val, hand_keys>>

\* bet_fold
bet_fold(p) ==
    /\ folded_ids' = folded_ids \cup {p}
    /\ final_hands' = remove_hand(final_hands, p)
    /\ hand_keys' = RemoveKey(hand_keys, p)
    /\ last' = Call("bet_fold", p, 0,
                    IF RemoveHandRaises(final_hands, p) THEN KeyError ELSE OK,
                    <<>>)
    /\ UNCHANGED <<num_players, ante_amt, players, next_id, turn_id, left_ids,
                   player_bets, joinLog, leaveCalled, deck, card_val>>

\* is_betting_over
is_betting_over ==
    /\ last' = LET r == is_betting_over_result(players, folded_ids, player_bets)
               IN Call("is_betting_over", 0, 0, r.err, r.val)
    /\ UNCHANGED <<session, joinLog, leaveCalled>>

\* reset
reset ==
    /\ deck' = NewDeck(deck)
    /\ final_hands' = <<>>
    /\ hand_keys' = <<>>
    /\ player_bets' = bets_reset(player_bets)
    /\ folded_ids' = {}
    /\ left_ids' = ResetLeft(left_ids)
    /\ last' = Call("reset", 0, 0, OK, <<>>)
    /\ UNCHANGED <<num_players, ante_amt, players, next_id, turn_id, joinLog,
                   leaveCalled, card_val>>

\* store_hand: a Hand built from the cards passed.
store_hand(p, card_list) ==
    /\ final_hands' = [q \in DOMAIN final_hands \cup {p} |->
                          IF q = p THEN AddAll(<<>>, card_list)
                          ELSE final_hands[q]]
    /\ hand_keys' = IF p \in DOMAIN final_hands THEN hand_keys
                    ELSE Append(hand_keys, p)
    /\ last' = Call("store_hand", p, 0, OK, <<>>)
    /\ UNCHANGED <<num_players, ante_amt, players, next_id, turn_id,
                   folded_ids, left_ids, player_bets, joinLog, leaveCalled,
                   deck, card_val>>

\* add_cards, for a player with a stored hand that has room for the cards.
add_cards(p, card_list) ==
    /\ p \in DOMAIN final_hands
    /\ Len(final_hands[p]) + Len(card_list) <= NUM_CARDS_IN_HAND
    /\ final_hands' = [final_hands EXCEPT ![p] = AddAll(@, card_list)]
    /\ last' = CallCards("add_cards", p, card_list, OK, <<>>)
    /\ UNCHANGED <<num_players, ante_amt, players, next_id, turn_id,
                   folded_ids, left_ids, player_bets, joinLog, leaveCalled,
                   deck, card_val, hand_keys>>

\* delete_cards, for a player with a stored hand and cards of that hand.
delete_cards(p, card_list) ==
    /\ p \in DOMAIN final_hands
    /\ IF DeleteRefused(Len(card_list))
       THEN /\ last' = CallCards("delete_cards", p, card_list, ValueError, <<>>)
            /\ UNCHANGED final_hands
       ELSE /\ final_hands' = [final_hands EXCEPT
                                 ![p] = RemoveAll(@, SortDesc(card_list))]
            /\ last' = CallCards("delete_cards", p, card_list, OK, <<>>)
    /\ UNCHANGED <<num_players, ante_amt, players, next_id, turn_id,
                   folded_ids, left_ids, player_bets, joinLog, leaveCalled,
                   deck, card_val, hand_keys>>

\* get_cards: deals num_cards cards; the cards go to the caller.
get_cards(num_cards) ==
    /\ IF GetCardsRefused(num_cards)
       THEN /\ last' = Call("get_cards", 0, num_cards, ValueError, <<>>)
            /\ UNCHANGED deck
       ELSE /\ deck - num_cards >= DECK_SIZE - MaxDealt
            /\ deck' = deck - num_cards
            /\ last' = Call("get_cards", 0, num_cards, OK, <<>>)
    /\ UNCHANGED <<num_players, ante_amt, players, next_id, turn_id,
                   folded_ids, left_ids, final_hands, player_bets, joinLog,
                   leaveCalled, card_val, hand_keys>>

\* evaluate_hands, when every stored hand is a full hand.
evaluate_hands ==
    /\ \A p \in DOMAIN final_hands : Len(final_hands[p]) = NUM_CARDS_IN_HAND
    /\ card_val' = CountsAfter(card_val, final_hands)
    /\ \E r \in {evaluate_hands_result(final_hands, hand_keys, card_val')} :
           last' = Call("evaluate_hands", 0, 0, r.err, r.val)
    /\ UNCHANGED <<num_players, ante_amt, players, next_id, turn_id,
                   folded_ids, left_ids, final_hands, player_bets, joinLog,
                   leaveCalled, deck, hand_keys>>

\* The server calls the methods one at a time; a call made for a player
\* carries the id of a roster player.
\* Roster and turn calls.
Next ==
    \/ join
    \/ increment_turn
    \/ reset
    \/ \E p \in players : leave(p)
    \/ \E p \in players : bet_fold(p)

Spec == Init /\ [][Next]_vars

\* The same, and leave and bet_fold also with an id that is not in the roster
\* (never joined, already gone, or 0).
NextStray ==
    \/ Next
    \/ \E p \in (0 .. num_players) \ players : leave(p)
    \/ \E p \in (0 .. num_players) \ players : bet_fold(p)

SpecStray == Init /\ [][NextStray]_vars

\* Roster calls, antes and the round-end test.
NextOver ==
    \/ join
    \/ reset
    \/ is_betting_over
    \/ \E p \in players : leave(p)
    \/ \E p \in players : bet_fold(p)
    \/ \E p \in players : ack_ante(p)

SpecOver == Init /\ [][NextOver]_vars

\* Betting calls between joins, folds, leaves and resets.
NextBet ==
    \/ join
    \/ reset
    \/ \E p \in players : leave(p)
    \/ \E p \in players : bet_fold(p)
    \/ \E p \in players : ack_ante(p)
    \/ \E p \in players : \E amt \in 0 .. MaxBet : bet_raise(p, amt)
    \/ \E p \in players : bet_call(p)
    \/ \E p \in players : bet_check(p)

SpecBet == InitBet /\ [][NextBet]_vars

\* Raises and calls with the round-end test, between joins, folds and leaves.
NextPot ==
    \/ join
    \/ is_betting_over
    \/ \E p \in players : leave(p)
    \/ \E p \in players : bet_fold(p)
    \/ \E p \in players : \E amt \in 0 .. MaxBet : bet_raise(p, amt)
    \/ \E p \in players : bet_call(p)

SpecPot == Init /\ [][NextPot]_vars

\* A round: joins, antes, dealt cards, stored hands, folds, leaves, reset.
NextRound ==
    \/ join
    \/ reset
    \/ \E p \in players : leave(p)
    \/ \E p \in players : bet_fold(p)
    \/ \E p \in players : ack_ante(p)
    \/ \E p \in players : \E h \in RoundHands : store_hand(p, h)
    \/ \E n \in DealSizes : get_cards(n)

SpecRound == InitTwo /\ [][NextRound]_vars

\* A showdown: stored hands of five cards, leaves, the evaluation, reset.
NextShow ==
    \/ join
    \/ reset
    \/ evaluate_hands
    \/ \E p \in players : leave(p)
    \/ \E p \in players : \E h \in ShowHands : store_hand(p, h)

SpecShow == InitTwo /\ [][NextShow]_vars

\* An evaluation within a round, from the session after two joins: antes,
\* stored hands, folds, leaves, reset.
InitSeated ==
    /\ num_players = MinPlayers
    /\ ante_amt = 1
    /\ players = 1 .. MinPlayers
    /\ final_hands = <<>>
    /\ next_id = MinPlayers + 1
    /\ player_bets = <<>>
    /\ turn_id = 1
    /\ folded_ids = {}
    /\ left_ids = {}
    /\ joinLog = [i \in 1 .. MinPlayers |-> i]
    /\ leaveCalled = {}
    /\ deck = DECK_SIZE
    /\ hand_keys = <<>>
    /\ card_val = <<>>
    /\ last = Call("join", 0, 0, OK, <<MinPlayers>>)

NextEval ==
    \/ reset
    \/ evaluate_hands
    \/ \E p \in players : leave(p)
    \/ \E p \in players : bet_fold(p)
    \/ \E p \in players : ack_ante(p)
    \/ \E p \in players : \E h \in RoundHands : store_hand(p, h)

SpecEval == InitSeated /\ [][NextEval]_vars

\* A showdown where hands are stored for players still in the round only:
\* roster players that have neither folded nor left.
NextActiveShow ==
    \/ join
    \/ reset
    \/ evaluate_hands
    \/ \E p \in players : leave(p)
    \/ \E p \in players : bet_fold(p)
    \/ \E p \in players \ (folded_ids \cup left_ids) :
          \E h \in RoundHands : store_hand(p, h)

InitShown == start(MaxShown, 1)

SpecActiveShow == InitShown /\ [][NextActiveShow]_vars

\* rank_high on its own.  The session after MaxCand joins, a stored hand for
\* every player and an evaluation: card_val holds the histograms of the hands.
InitRank ==
    /\ num_players = MaxCand
    /\ ante_amt = 1
    /\ players = 1 .. MaxCand
    /\ final_hands \in [1 .. MaxCand -> ShowHands]
    /\ next_id = MaxCand + 1
    /\ player_bets = <<>>
    /\ turn_id = 1
    /\ folded_ids = {}
    /\ left_ids = {}
    /\ joinLog = [i \in 1 .. MaxCand |-> i]
    /\ leaveCalled = {}
    /\ deck = DECK_SIZE
    /\ hand_keys = [i \in 1 .. MaxCand |-> i]
    /\ card_val = CountsAfter(<<>>, final_hands)
    /\ last = LET r == evaluate_hands_result(final_hands, hand_keys, card_val)
              IN Call("evaluate_hands", 0, 0, r.err, r.val)

\* The candidate lists: ids with a card_val entry, each at most once.
CandLists ==
    {c \in UNION {[1 .. n -> 1 .. MaxCand] : n \in 0 .. MaxCand} :
        \A i, j \in DOMAIN c : i # j => c[i] # c[j]}

\* A call of rank_high; the call record keeps the candidate list.
call_rank_high(candidates) ==
    /\ last' = LET r == rank_high(card_val, candidates)
               IN CallCards("rank_high", 0, candidates, r.err, r.val)
    /\ UNCHANGED <<session, joinLog, leaveCalled>>

\* rank_high writes no field: one call is made on each evaluated session.
NextRank ==
    /\ last.op = "evaluate_hands"
    /\ \E c \in CandLists : call_rank_high(c)

SpecRank == InitRank /\ [][NextRank]_vars

\* score_player on its own.  The session after one join, a stored hand and
\* an evaluation: card_val holds the histogram of the hand.
InitScore ==
    /\ num_players = MinPlayers
    /\ ante_amt = 1
    /\ players = {1}
    /\ final_hands \in {[p \in {1} |-> h] : h \in ScoreHands}
    /\ next_id = 2
    /\ player_bets = <<>>
    /\ turn_id = 1
    /\ folded_ids = {}
    /\ left_ids = {}
    /\ joinLog = <<1>>
    /\ leaveCalled = {}
    /\ deck = DECK_SIZE
    /\ hand_keys = <<1>>
    /\ card_val = CountsAfter(<<>>, final_hands)
    /\ last = LET r == evaluate_hands_result(final_hands, hand_keys, card_val)
              IN Call("evaluate_hands", 0, 0, r.err, r.val)

\* A call of score_player for a player with a stored hand and a histogram.
call_score_player(p) ==
    /\ p \in DOMAIN final_hands \cap DOMAIN card_val
    /\ last' = Call("score_player", p, 0, OK,
                    <<score_player(final_hands[p], card_val[p])>>)
    /\ UNCHANGED <<session, joinLog, leaveCalled>>

\* score_player writes no field: one call is made on each evaluated session.
NextScore ==
    /\ last.op = "evaluate_hands"
    /\ \E p \in players : call_score_player(p)

SpecScore == InitScore /\ [][NextScore]_vars

\* Discard and draw.  The session after two joins and a stored hand for
\* each player.
InitDraw ==
    /\ num_players = MinPlayers
    /\ ante_amt = 1
    /\ players = 1 .. MinPlayers
    /\ final_hands = [p \in 1 .. MinPlayers |->
                         IF p = 1 THEN PairOfKings ELSE RoyalFlush]
    /\ next_id = MinPlayers + 1
    /\ player_bets = <<>>
    /\ turn_id = 1
    /\ folded_ids = {}
    /\ left_ids = {}
    /\ joinLog = [i \in 1 .. MinPlayers |-> i]
    /\ leaveCalled = {}
    /\ deck = DECK_SIZE
    /\ hand_keys = [i \in 1 .. MinPlayers |-> i]
    /\ card_val = <<>>
    /\ last = Call("store_hand", MinPlayers, 0, OK, <<>>)

\* The lists given to delete_cards hold cards of the player's hand, each
\* once, in any order, from none to one more than MAX_DISCARD.
CardLists(hand) ==
    {c \in UNION {[1 .. n -> {hand[i] : i \in DOMAIN hand}] :
                     n \in 0 .. MAX_DISCARD + 1} :
        \A i, j \in DOMAIN c : i # j => c[i] # c[j]}

\* The player whose turn it is discards from a hand of five cards and draws
\* cards that are not yet in the hand.
NextDraw ==
    \/ /\ turn_id \in DOMAIN final_hands
       /\ Len(final_hands[turn_id]) = NUM_CARDS_IN_HAND
       /\ \E c \in CardLists(final_hands[turn_id]) : delete_cards(turn_id, c)
    \/ /\ turn_id \in DOMAIN final_hands
       /\ \E c \in DrawCards :
             /\ \A i \in DOMAIN final_hands[turn_id] :
                    final_hands[turn_id][i] # c
             /\ add_cards(turn_id, <<c>>)

SpecDraw == InitDraw /\ [][NextDraw]_vars

\* ------------------------------------------------------------------ claims
\* Players in the roster that have neither folded nor left.
Active == players \ (folded_ids \cup left_ids)

Out == folded_ids \cup left_ids

\* Number of join calls that returned an id.
Joined == Cardinality({i \in DOMAIN joinLog : joinLog[i] # 0})

\* C1: the k-th join call returns k for k up to the capacity, so the ids are
\* 1, 2, 3, ... in increasing order and none is returned twice, whatever leave
\* and reset calls come in between; every join call after that fails with
\* GameFullError.
C1_JoinIdsSequential ==
    \A i \in DOMAIN joinLog :
        joinLog[i] = IF i <= num_players THEN i ELSE 0

\* A join refused after a player has left.
C1_Witness ==
    /\ Len(joinLog) > num_players
    /\ joinLog[num_players + 1] = 0
    /\ leaveCalled # {}
    /\ last.op = "join"

\* C2 as stated: join fails with GameFullError exactly when the roster size
\* equals the capacity, and otherwise hands out the next id and inserts it.
C2_JoinFailsIffRosterFull ==
    [][last'.op = "join" =>
         /\ (last'.err = GameFullError) <=> (Cardinality(players) = num_players)
         /\ last'.err = OK =>
              /\ last'.val = <<Joined + 1>>
              /\ players' = players \cup {Joined + 1}]_vars

\* C2 amended: join fails with GameFullError exactly when capacity-many joins
\* have succeeded before, whatever the roster size is now; otherwise it
\* returns the next sequential id and inserts it into the roster.
C2_JoinFailsIffCapacityJoined ==
    [][last'.op = "join" =>
         /\ (last'.err = GameFullError) <=> (Joined = num_players)
         /\ last'.err = OK =>
              /\ last'.val = <<Joined + 1>>
              /\ players' = players \cup {Joined + 1}]_vars

\* A join refused while the roster is below the capacity.
C2_Witness ==
    /\ last.op = "join"
    /\ last.err = GameFullError
    /\ Cardinality(players) < num_players

\* C3 as stated: with at least 2 active players the turn pointer is in neither
\* the folded nor the departed set.
C3_TurnNeverOut ==
    Cardinality(Active) >= 2 => turn_id \notin Out

\* C3 amended: the turn pointer starts outside the folded and departed sets,
\* and the only step that brings it into one of them is betFold or leave of the
\* very id it names (these calls do not advance the pointer); no join, reset or
\* incrementTurn does.
C3_TurnOutOnlyByOwnFoldOrLeave ==
    /\ (last.op = "start" => turn_id \notin Out)
    /\ [][(turn_id \notin Out /\ turn_id' \in Out') =>
            (last'.op \in {"bet_fold", "leave"} /\ last'.id = turn_id)]_vars

\* The player whose turn it is has folded, two others are still active, and
\* the pointer still names the folded player.
C3_Witness ==
    /\ last.op = "bet_fold"
    /\ last.id = turn_id
    /\ turn_id \in folded_ids
    /\ Cardinality(Active) >= 2

\* C4: an incrementTurn that changes the turn pointer sets it to an id outside
\* the folded and departed sets, and never to an id for which leave has been
\* called, in this round or after resets.
C4_IncrementSkipsOut ==
    [][(last'.op = "increment_turn" /\ turn_id' # turn_id) =>
         (turn_id' \notin Out' /\ turn_id' \notin leaveCalled)]_vars

\* incrementTurn has just stepped over the id of a player who left.
C4_Witness ==
    /\ last.op = "increment_turn"
    /\ ((turn_id + num_players - 1) % num_players) \in leaveCalled
    /\ turn_id \notin leaveCalled
    /\ turn_id \in players

\* C5: with fewer than 2 active players incrementTurn leaves the turn pointer
\* unchanged.
C5_FrozenBelowTwoActive ==
    [][(last'.op = "increment_turn" /\ Cardinality(Active) < 2) =>
         turn_id' = turn_id]_vars

\* What isBettingOver is to return on at least one active player: (true, true)
\* for exactly one, else (true, false) when all active players have equal
\* ledger entries (0 when absent), else (false, false).
ExpectedOver ==
    IF Cardinality(Active) = 1 THEN <<TRUE, TRUE>>
    ELSE IF \A p, q \in Active :
              get_player_bet(player_bets, p) = get_player_bet(player_bets, q)
         THEN <<TRUE, FALSE>>
         ELSE <<FALSE, FALSE>>

\* C6: with at least one active player isBettingOver returns (true, true) for
\* exactly one active player, else (true, false) when the active players'
\* ledger entries are all equal, else (false, false).
C6_BettingOverResult ==
    (last.op = "is_betting_over" /\ Active # {}) =>
        (last.err = OK /\ last.val = ExpectedOver)

\* C7: isBettingOver fails with GameFullError if and only if no player is
\* active.
C7_BettingOverFailsIffNoneActive ==
    last.op = "is_betting_over" =>
        ((last.err = GameFullError) <=> (Active = {}))

\* The largest ledger entry, 0 for an empty ledger.
MaxEntry(d) ==
    IF DOMAIN d = {} THEN 0
    ELSE CHOOSE m \in {d[q] : q \in DOMAIN d} : \A q \in DOMAIN d : d[q] <= m

\* The sum of get_player_bet over a set of ids.
RECURSIVE SumBets(_, _)
SumBets(d, S) ==
    IF S = {} THEN 0
    ELSE LET p == CHOOSE x \in S : TRUE
         IN get_player_bet(d, p) + SumBets(d, S \ {p})

\* Every entry but p's is as before, and no entry but p's appeared or vanished.
OthersUnchanged(p) ==
    /\ DOMAIN player_bets' \ {p} = DOMAIN player_bets \ {p}
    /\ \A q \in DOMAIN player_bets \ {p} : player_bets'[q] = player_bets[q]

\* C8: after betCall(p) the entry of p is the largest entry there was before
\* the call, the largest entry is what it was, the other entries are unchanged,
\* and a second betCall(p) right after changes nothing.
C8_CallMatchesMax ==
    [][last'.op = "bet_call" =>
         /\ get_player_bet(player_bets', last'.id) = MaxEntry(player_bets)
         /\ MaxEntry(player_bets') = MaxEntry(player_bets)
         /\ OthersUnchanged(last'.id)
         /\ (last.op = "bet_call" /\ last.id = last'.id) =>
                (player_bets' = player_bets /\ last'.amt = 0)]_vars

\* betCall has raised the caller's entry to the entry of another player.
C8_Witness ==
    /\ last.op = "bet_call"
    /\ last.amt > 0
    /\ \E q \in DOMAIN player_bets \ {last.id} :
           player_bets[q] = player_bets[last.id]

\* C9: after betRaise(p, amt) the entry of p is the largest entry there was
\* before the call plus amt, the other entries are unchanged, the pool has
\* grown by (largest entry - old entry of p) + amt, and for amt > 0 player p
\* alone holds the largest entry.
C9_RaiseTopsMax ==
    [][last'.op = "bet_raise" =>
         LET p == last'.id
             amt == last'.amt
         IN /\ get_player_bet(player_bets', p) = MaxEntry(player_bets) + amt
            /\ OthersUnchanged(p)
            /\ get_pool_amt(player_bets') =
                 get_pool_amt(player_bets)
                   + (MaxEntry(player_bets) - get_player_bet(player_bets, p))
                   + amt
            /\ amt > 0 => get_max_ids(player_bets') = {p}]_vars

\* betRaise with a positive amount by a player who was behind another one.
C9_Witness ==
    /\ last.op = "bet_raise"
    /\ last.amt > 0
    /\ \E q \in DOMAIN player_bets \ {last.id} :
           /\ player_bets[q] > 0
           /\ player_bets[last.id] = player_bets[q] + last.amt

\* C10: the pool amount, as getPoolAmt computes it and as betInfo returns it,
\* is the sum of getPlayerBet over the ids with a ledger entry, and it is 0
\* right after reset.
C10_PoolIsSumOfEntries ==
    /\ get_pool_amt(player_bets) = SumBets(player_bets, DOMAIN player_bets)
    /\ \A p \in 0 .. num_players :
           bet_info(player_bets, p)[1] = SumBets(player_bets, DOMAIN player_bets)
    /\ last.op = "reset" => get_pool_amt(player_bets) = 0

\* Two players have bet, unequal amounts, and one of them has left.
C10_Witness ==
    /\ \E p, q \in DOMAIN player_bets :
           /\ 0 < player_bets[p]
           /\ player_bets[p] < player_bets[q]
           /\ p \in left_ids
    /\ get_pool_amt(player_bets) >= 3

\* C11: reset empties the ledger, the folded set and the stored hands and puts
\* a full deck in place; it leaves the departed set, the roster and the next-id
\* counter as they were, so a player who left stays in the departed set through
\* every later reset.
C11_ResetFrame ==
    /\ [](leaveCalled \subseteq left_ids)
    /\ [][last'.op = "reset" =>
            /\ player_bets' = <<>>
            /\ folded_ids' = {}
            /\ final_hands' = <<>>
            /\ deck' = DECK_SIZE
            /\ left_ids' = left_ids
            /\ players' = players
            /\ next_id' = next_id]_vars

\* A reset with a departed player on record and players in the roster.
C11_Witness ==
    /\ last.op = "reset"
    /\ left_ids # {}
    /\ players # {}
    /\ next_id > num_players


\* C12: leave(id) with an id that is not in the roster (never joined, or
\* already gone) fails with KeyError (NotFound) and leaves every field of the
\* session as it was: departed set, roster, stored hands, turn pointer.
\* The code adds the id to left_ids before it looks the player up.
C12_LeaveUnknownChangesNothing ==
    [][(last'.op = "leave" /\ last'.id \notin players) =>
            /\ last'.err = KeyError
            /\ session' = session]_vars

\* C13: for a roster player, bet_fold(id) and leave(id) complete without
\* error whatever hands are stored; afterwards the id is in the folded set
\* (bet_fold) or in the departed set and out of the roster (leave), and the
\* id has no stored hand.  The code's remove_hand deletes the player's entry
\* whenever any hand is stored, also when this player has none.
C13_FoldAndLeaveNeverFail ==
    [][(last'.op \in {"bet_fold", "leave"} /\ last'.id \in players) =>
            /\ last'.err = OK
            /\ last'.op = "bet_fold" => last'.id \in folded_ids'
            /\ last'.op = "leave" =>
                   last'.id \in left_ids' /\ last'.id \notin players'
            /\ last'.id \notin DOMAIN final_hands']_vars

\* The category of a stored hand, and the best category among the stored
\* hands.
CategoryOf(p) == score_player(final_hands[p], get_counts(final_hands[p]))

BestCategory ==
    CHOOSE k \in 0 .. 9 :
        /\ \E p \in DOMAIN final_hands : CategoryOf(p) = k
        /\ \A p \in DOMAIN final_hands : CategoryOf(p) >= k

\* C14: with at least one hand stored, evaluate_hands returns a non-empty
\* list without duplicates of ids that have a stored hand in the best
\* (lowest-numbered) category among the stored hands.
C14_WinnersInBestCategory ==
    (last.op = "evaluate_hands" /\ DOMAIN final_hands # {}) =>
        /\ last.err = OK
        /\ last.val # <<>>
        /\ \A i, j \in DOMAIN last.val : i # j => last.val[i] # last.val[j]
        /\ \A i \in DOMAIN last.val :
              /\ last.val[i] \in DOMAIN final_hands
              /\ CategoryOf(last.val[i]) = BestCategory

\* Reached: player 1 holds a pair of kings, player 2 a royal flush, and the
\* evaluation names player 2 only.
C14_Witness ==
    /\ last.op = "evaluate_hands"
    /\ DOMAIN final_hands = {1, 2}
    /\ final_hands[1] = PairOfKings
    /\ final_hands[2] = RoyalFlush
    /\ last.val = <<2>>

\* The rank held four times in a stored four-of-a-kind hand.
QuadRank(p) ==
    CHOOSE r \in MinRank .. MaxRank : get_counts(final_hands[p])[r] = 4

\* C15: when two players both hold four of a kind with different quad
\* ranks, whatever the fifth card, evaluate_hands returns only the id of the
\* player with the higher quad rank.  The code compares the highest occupied
\* bucket, which is the fifth card's when that card outranks the quad.
C15_HigherQuadWins ==
    (/\ last.op = "evaluate_hands"
     /\ DOMAIN final_hands = {1, 2}
     /\ \A p \in {1, 2} : CategoryOf(p) = 2
     /\ QuadRank(1) # QuadRank(2)) =>
        last.val = <<IF QuadRank(1) > QuadRank(2) THEN 1 ELSE 2>>

\* C18 as stated: evaluate_hands leaves every field of the session as it
\* was.  The code stores each stored hand's histogram in card_val.
C18_EvaluateChangesNoField ==
    [][last'.op = "evaluate_hands" => session' = session]_vars

\* C18, amended: evaluate_hands writes card_val only, setting the entry of
\* every player with a stored hand to that hand's histogram and keeping the
\* other entries; stored hands, ledger, folded set, departed set, roster,
\* turn pointer and deck are as before, and a second call right after the
\* first (again) returns the same result.
C18_EvaluateWritesOnlyCardVal ==
    [][last'.op = "evaluate_hands" =>
            /\ UNCHANGED <<num_players, ante_amt, players, next_id, turn_id,
                           folded_ids, left_ids, final_hands, player_bets,
                           deck, hand_keys>>
            /\ DOMAIN card_val' = DOMAIN card_val \cup DOMAIN final_hands
            /\ \A p \in DOMAIN final_hands :
                   card_val'[p] = get_counts(final_hands[p])
            /\ \A p \in DOMAIN card_val \ DOMAIN final_hands :
                   card_val'[p] = card_val[p]
            /\ evaluate_hands_result(final_hands', hand_keys',
                                     CountsAfter(card_val', final_hands'))
                   = [err |-> last'.err, val |-> last'.val]]_vars

\* Reached: an evaluation of two stored hands that ended in a tie, with the
\* histograms of both in card_val.
C18_Witness ==
    /\ last.op = "evaluate_hands"
    /\ DOMAIN final_hands = {1, 2}
    /\ Len(last.val) = 2
    /\ \A p \in {1, 2} : card_val[p] = get_counts(final_hands[p])

\* The highest rank bucket that holds a card.
TopOccupied(counts) ==
    CHOOSE j \in DOMAIN counts :
        counts[j] # 0 /\ \A k \in DOMAIN counts : k > j => counts[k] = 0

\* C16: rank_high on a list with one candidate returns that list; on a list
\* of several distinct candidates it returns, each once, exactly the
\* candidates whose highest occupied rank bucket is the maximum over all
\* candidates, so the same set for every order of the list.
C16_RankHighKeepsTopCandidates ==
    (last.op = "rank_high" /\ last.cards # <<>>) =>
        LET c == last.cards
            ids == {c[i] : i \in DOMAIN c}
            best == {p \in ids :
                        \A q \in ids : TopOccupied(card_val[p])
                                           >= TopOccupied(card_val[q])}
        IN /\ last.err = OK
           /\ Len(c) = 1 => last.val = c
           /\ {last.val[i] : i \in DOMAIN last.val} = best
           /\ Len(last.val) = Cardinality(best)

\* Reached: three candidates, two of them tied on the top bucket and returned,
\* the third one lower and dropped.
C16_Witness ==
    /\ last.op = "rank_high"
    /\ Len(last.cards) = 3
    /\ Len(last.val) = 2

\* The ranks and suits of a hand, and the number of its cards of a rank.
RanksOf(hand) == {Value(hand[i]) : i \in DOMAIN hand}

SuitsOf(hand) == {Suit(hand[i]) : i \in DOMAIN hand}

NumOfRank(hand, r) == Cardinality({i \in DOMAIN hand : Value(hand[i]) = r})

\* Five consecutive rank buckets within 2..14 hold one card each.
FiveInARow(hand) ==
    \E lo \in MinRank .. MaxRank - 4 : RanksOf(hand) = lo .. lo + 4

\* The first category that matches, in the priority order 0 to 9.
Category(hand) ==
    LET flush == Cardinality(SuitsOf(hand)) = 1
        straight == FiveInARow(hand)
        pairs == Cardinality({r \in RanksOf(hand) : NumOfRank(hand, r) = 2})
    IN IF flush /\ RanksOf(hand) = 10 .. 14 THEN 0
       ELSE IF flush /\ straight THEN 1
       ELSE IF \E r \in RanksOf(hand) : NumOfRank(hand, r) = 4 THEN 2
       ELSE IF /\ \E r \in RanksOf(hand) : NumOfRank(hand, r) = 3
               /\ pairs = 1 THEN 3
       ELSE IF flush THEN 4
       ELSE IF straight THEN 5
       ELSE IF \E r \in RanksOf(hand) : NumOfRank(hand, r) = 3 THEN 6
       ELSE IF pairs = 2 THEN 7
       ELSE IF pairs = 1 THEN 8
       ELSE 9

\* C17: for every hand of five cards, score_player returns the first matching
\* category in the order royal flush 0, straight flush 1, four of a kind 2,
\* full house 3, flush 4, straight 5, three of a kind 6, two pair 7, one pair
\* 8, high card 9; is_straight holds exactly when five consecutive buckets
\* within 2..14 hold one card each, so not for A-2-3-4-5 and for 10-J-Q-K-A.
C17_ScoreIsFirstMatchingCategory ==
    last.op = "score_player" =>
        LET hand == final_hands[last.id]
        IN /\ last.val = <<Category(hand)>>
           /\ is_straight(card_val[last.id]) <=> FiveInARow(hand)
           /\ RanksOf(hand) = {2, 3, 4, 5, 14} => last.val[1] \in {4, 9}
           /\ RanksOf(hand) = 10 .. 14 => last.val[1] \in {0, 5}

\* Reached: A-2-3-4-5 in two suits scored as high card.
C17_Witness ==
    /\ last.op = "score_player"
    /\ RanksOf(final_hands[last.id]) = {2, 3, 4, 5, 14}
    /\ last.val = <<9>>

\* A hand without the cards of a list, the other cards in their order.
Without(hand, card_list) ==
    SelectSeq(hand, LAMBDA x : \A i \in DOMAIN card_list : card_list[i] # x)

\* The same cards in any order.
Reordered(card_list) ==
    {d \in [DOMAIN card_list -> {card_list[i] : i \in DOMAIN card_list}] :
        \A i, j \in DOMAIN d : i # j => d[i] # d[j]}

\* C19: delete_cards fails with ValueError (InvalidArgument) and leaves the
\* hand as it was when the list is empty or longer than MAX_DISCARD; for a
\* valid list the hand becomes the old hand without those cards, the same
\* for every order of the list.
C19_DeleteCardsChecksLengthThenRemoves ==
    [][last'.op = "delete_cards" =>
          LET p == last'.id
              c == last'.cards
          IN IF Len(c) < 1 \/ Len(c) > MAX_DISCARD
             THEN last'.err = ValueError /\ final_hands' = final_hands
             ELSE /\ last'.err = OK
                  /\ final_hands' =
                         [final_hands EXCEPT ![p] = Without(@, c)]
                  /\ \A d \in Reordered(c) :
                         RemoveAll(final_hands[p], SortDesc(d))
                             = final_hands'[p]]_vars

\* Reached: a discard of three cards given in ascending rank, two of them of
\* one rank, that left a hand of two cards.
C19_Witness ==
    /\ last.op = "delete_cards"
    /\ last.err = OK
    /\ Len(last.cards) = MAX_DISCARD
    /\ Value(last.cards[1]) < Value(last.cards[2])
    /\ Value(last.cards[2]) = Value(last.cards[3])
    /\ Len(final_hands[last.id]) = 2

\* The k-th id after t in join order, cyclically over the ids 1..num_players,
\* and the first of them that is active.
IdAfter(t, k) == ((t + num_players - 1 + k) % num_players) + 1

NextActive(t) ==
    IdAfter(t, CHOOSE k \in 1 .. num_players :
                   /\ IdAfter(t, k) \in Active
                   /\ \A j \in 1 .. k - 1 : IdAfter(t, j) \notin Active)

\* C20: with all capacity players joined and at least 2 of them active,
\* increment_turn moves the turn pointer to the next active player in join
\* order, cyclically, so to the id of a roster player, the highest id
\* included.  The code advances modulo the capacity, over 0..num_players-1.
C20_TurnGoesToNextActivePlayer ==
    [][(/\ last'.op = "increment_turn"
        /\ next_id > num_players
        /\ Cardinality(Active) >= 2) =>
            /\ turn_id' = NextActive(turn_id)
            /\ turn_id' \in players]_vars

\* C21: after an active player has raised by more than 0 with at least 2
\* players active, is_betting_over returns (false, false) until every other
\* active player has matched, folded or left; here for the first call after
\* the raise.  The code's count of the players in the round, len(players) -
\* len(folded_ids), subtracts a player who folded and then left twice.
C21_RaiseKeepsBettingOpen ==
    [][(/\ last.op = "bet_raise"
        /\ last.amt > 0
        /\ last.id \in Active
        /\ Cardinality(Active) >= 2
        /\ last'.op = "is_betting_over") =>
            (last'.err = OK /\ last'.val = <<FALSE, FALSE>>)]_vars

\* C22: when store_hand is called for active players only, no folded or
\* departed player has a stored hand, and evaluate_hands returns no id of a
\* player who folded in this round or who has left.
C22_NoHandForFoldedOrDeparted ==
    /\ DOMAIN final_hands \cap Out = {}
    /\ last.op = "evaluate_hands" =>
           \A i \in DOMAIN last.val : last.val[i] \notin Out

\* Reached: a player of the roster has folded, and an evaluation on a
\* stale histogram of that player named another player.
C22_Witness ==
    /\ last.op = "evaluate_hands"
    /\ last.val # <<>>
    /\ \E p \in folded_ids \cap players : p \in DOMAIN card_val

=============================================================================
